---- MODULE Spec2Model ----
(***************************************************************************)
(* Model of the webapp backend of craft-agents-oss-webapp:                 *)
(*   - SessionManager (sendMessage, processEvent, cancelProcessing,        *)
(*     getOrCreateManagedSession, getOrCreateAgent)                        *)
(*   - the rpcHandler case 'sendMessage' (fire and forget + catch)         *)
(*   - the SSE fan-out (sseHandler, broadcastEvent)                        *)
(* JavaScript runs one task at a time: every action below is the code      *)
(* between two suspension points (await / for await) of one handler.       *)
(* The CraftAgent is an external collaborator: what its chat() sequence    *)
(* yields is a nondeterministic choice among the agent events of a set,    *)
(* ending with `complete` or with an exception.                            *)
(***************************************************************************)
EXTENDS Naturals, Sequences, FiniteSets

\* ---------------------------------------------------------------- bounds
MaxCalls == 2        \* sendMessage invocations per behaviour
MaxEvents == 2       \* agent events yielded per behaviour (lifecycle)
MaxToolEvents == 4   \* agent events yielded per behaviour (tool tracking)
MaxNestEvents == 4   \* agent events yielded per behaviour (nesting)
MaxCancels == 1      \* cancelProcessing invocations per behaviour (lifecycle)
MaxClients == 2      \* SSE connections per behaviour
MaxSseEvents == 2    \* agent events yielded per behaviour (fan-out)
MaxTextEvents == 3   \* agent events yielded per behaviour (streaming)
MaxPairEvents == 1   \* agent events yielded per behaviour (two sessions)
MaxCancelEvents == 1 \* agent events yielded per behaviour (cancelling)
MaxIdleCancels == 2  \* cancelProcessing invocations per behaviour (cancelling)
MaxStackEvents == 4  \* agent events yielded per behaviour (parent stack)
MaxResultEvents == 4 \* agent events yielded per behaviour (tool results)
MaxPassEvents == 3   \* agent events yielded per behaviour (passthrough)
MaxDeleteEvents == 2 \* agent events yielded per behaviour (deleting)

\* ------------------------------------------------------------ value sets
StoredIds == {"s1", "s2"}          \* sessions present in storage at start
SessionIds == StoredIds \cup {"sx"}   \* "sx": an id storage does not know
ToolIds == {"t1", "t2"}
AllToolIds == ToolIds \cup {"t3"}
None == "none"                     \* JavaScript undefined
CallIds == 1 .. MaxCalls
ClientIds == 1 .. MaxClients
NoObj == 0                         \* absent map entry / absent agent
NoText == <<None>>                 \* an undefined string field (texts are sequences)

\* ------------------------------------------------------------- variables
VARIABLES
  stored,           \* session ids durable storage holds
  managedSessions,  \* SessionManager.managedSessions: session id -> object
  heap,             \* ManagedSession objects, named by the call that made them
  agents,           \* CraftAgent objects constructed (named by their creator)
  calls,            \* sendMessage invocations: position and local variables
  nCalls,           \* invocations started so far
  nCancels,         \* cancelProcessing invocations so far
  lastCancel,       \* history: the latest cancelProcessing (its session, did it act)
  clients,          \* sse.ts `clients`: registered stream controllers
  chan,             \* per controller: writable?, frames enqueued
  published,        \* history: every event handed to broadcast, in order
  aborts            \* history: every forceAbort issued, in order

vars == <<stored, managedSessions, heap, agents, calls, nCalls, nCancels,
          lastCancel, clients, chan, published, aborts>>

\* ------------------------------------------------------------------ maps
\* A JavaScript Map is a function whose domain is its key set.
EmptyMap == [k \in {} |-> None]
MapHas(m, k) == k \in DOMAIN m
MapGet(m, k) == IF k \in DOMAIN m THEN m[k] ELSE None
MapSet(m, k, v) == [x \in (DOMAIN m) \cup {k} |-> IF x = k THEN v ELSE m[x]]
MapDelete(m, k) == [x \in (DOMAIN m) \ {k} |-> m[x]]

\* IndexOf with the absent case taken for the last index (as splice(-1, 1))
IndexOf_AbsentIsLast(s, v) ==
  IF \E i \in 1 .. Len(s) : s[i] = v
  THEN CHOOSE i \in 1 .. Len(s) : s[i] = v /\ \A j \in 1 .. (i - 1) : s[j] # v
  ELSE Len(s)

\* Array.prototype.indexOf: first index holding v, 0 when absent
IndexOf(s, v) ==
  IF \E i \in 1 .. Len(s) : s[i] = v
  THEN CHOOSE i \in 1 .. Len(s) : s[i] = v /\ \A j \in 1 .. (i - 1) : s[j] # v
  ELSE 0

\* Array.prototype.splice(index, 1)
SpliceOut(s, i) == [j \in 1 .. (Len(s) - 1) |-> IF j < i THEN s[j] ELSE s[j + 1]]

\* ------------------------------------------------------- outward events
\* SessionEvent: one flat record; fields an event does not carry are None.
\* `by` is bookkeeping, not payload: the sendMessage invocation whose code
\* published the event (0: cancelProcessing).
SessionEvent(type, sessionId, by) ==
  [type |-> type, sessionId |-> sessionId, by |-> by,
   toolUseId |-> None, toolName |-> None, parentToolUseId |-> None,
   text |-> <<>>, isIntermediate |-> FALSE, isError |-> FALSE]

\* ------------------------------------------------------------- messages
Message(role, content) ==
  [role |-> role, content |-> content,
   toolUseId |-> None, toolName |-> None, toolStatus |-> None,
   toolResult |-> NoText, parentToolUseId |-> None,
   isIntermediate |-> FALSE, isError |-> FALSE]

\* --------------------------------------------------------- agent events
AgentEvent(type) ==
  [type |-> type, text |-> <<>>, isIntermediate |-> FALSE,
   toolUseId |-> None, toolName |-> None, parentToolUseId |-> None,
   result |-> <<>>, isError |-> FALSE]

PARENT_TOOLS == {"Task", "TaskOutput"}

\* ------------------------------------------------------- ManagedSession
NewManagedSession(sessionId) ==
  [id |-> sessionId, agent |-> NoObj, isProcessing |-> FALSE,
   streamingText |-> <<>>, messages |-> <<>>,
   pendingTools |-> EmptyMap, parentToolStack |-> <<>>,
   toolToParentMap |-> EmptyMap, pendingTextParent |-> None,
   \* bookkeeping, read by no action:
   turn |-> 0,                \* the invocation that last began a turn
   hist |-> EmptyMap,         \* per tool id, what the agent reported of it
   sinceContainer |-> None]   \* container started last, nothing closing it since

IdleCall ==
  [pc |-> "idle", sid |-> None, m |-> NoObj, agent |-> NoObj, n |-> 0,
   \* bookkeeping, read by no action:
   begun |-> FALSE,          \* lines 486-509 ran: the invocation began a turn
   sawProcessing |-> FALSE,  \* managed.isProcessing as line 481 read it
   last |-> AgentEvent(None),  \* the agent event its loop processed last
   completes |-> 0,          \* `complete` events published for its turn
   cancelled |-> "no",       \* cancelProcessing hit its turn: "silent"/"loud"
   late |-> 0,               \* events it published after a loud cancel of its turn
   aborted |-> FALSE,        \* its agent was force-aborted while it looped
   seen |-> <<>>,            \* the agent events its loop processed, in order
   base |-> 0,               \* messages.length when line 486 ran
   thrown |-> "no",          \* what made it fail: "notFound", "agent", "chat"
   rpc |-> None,             \* what the rpcHandler case has returned to its caller
   caught |-> [isError |-> FALSE, message |-> NoText]]  \* what line 542 caught

\* ----------------------------------------------------------- processEvent
\* processEvent(managed, event): the new ManagedSession and the outward
\* events handed to broadcast, in order.  `by` only labels the events.
Top(stack) == IF Len(stack) > 0 THEN stack[Len(stack)] ELSE None

\* processTextDelta with the parent captured at every delta
processTextDelta_AlwaysCaptures(mg, event, by) ==
  [mg |-> [mg EXCEPT !.pendingTextParent = Top(mg.parentToolStack),
                     !.streamingText = mg.streamingText \o event.text],
   out |-> << [SessionEvent("text_delta", mg.id, by) EXCEPT !.text = event.text] >>]

processTextDelta(mg, event, by) ==
  LET parent == IF mg.streamingText = <<>> THEN Top(mg.parentToolStack)
                ELSE mg.pendingTextParent
  IN [mg |-> [mg EXCEPT !.pendingTextParent = parent,
                        !.streamingText = mg.streamingText \o event.text],
      out |-> << [SessionEvent("text_delta", mg.id, by) EXCEPT !.text = event.text] >>]

\* processTextComplete with streamingText left as it is
processTextComplete_KeepsText(mg, event, by) ==
  LET textParentToolUseId == IF event.isIntermediate THEN mg.pendingTextParent ELSE None
      assistantMessage == [Message("assistant", event.text) EXCEPT
                             !.isIntermediate = event.isIntermediate,
                             !.parentToolUseId = textParentToolUseId]
  IN [mg |-> [mg EXCEPT !.messages = Append(mg.messages, assistantMessage),
                        !.pendingTextParent = None],
      out |-> << [SessionEvent("text_complete", mg.id, by) EXCEPT
                    !.text = event.text,
                    !.isIntermediate = event.isIntermediate,
                    !.parentToolUseId = textParentToolUseId] >>]

\* processTextComplete with the captured parent kept for final text too
processTextComplete_KeepsParent(mg, event, by) ==
  LET textParentToolUseId == mg.pendingTextParent
      assistantMessage == [Message("assistant", event.text) EXCEPT
                             !.isIntermediate = event.isIntermediate,
                             !.parentToolUseId = textParentToolUseId]
  IN [mg |-> [mg EXCEPT !.messages = Append(mg.messages, assistantMessage),
                        !.streamingText = <<>>,
                        !.pendingTextParent = None],
      out |-> << [SessionEvent("text_complete", mg.id, by) EXCEPT
                    !.text = event.text,
                    !.isIntermediate = event.isIntermediate,
                    !.parentToolUseId = textParentToolUseId] >>]

processTextComplete(mg, event, by) ==
  LET textParentToolUseId == IF event.isIntermediate THEN mg.pendingTextParent ELSE None
      assistantMessage == [Message("assistant", event.text) EXCEPT
                             !.isIntermediate = event.isIntermediate,
                             !.parentToolUseId = textParentToolUseId]
  IN [mg |-> [mg EXCEPT !.messages = Append(mg.messages, assistantMessage),
                        !.streamingText = <<>>,
                        !.pendingTextParent = None],
      out |-> << [SessionEvent("text_complete", mg.id, by) EXCEPT
                    !.text = event.text,
                    !.isIntermediate = event.isIntermediate,
                    !.parentToolUseId = textParentToolUseId] >>]

\* ResolveParent with an explicit parent honoured for containers too
ResolveParent_ExplicitFirst(stack, event) ==
  IF event.parentToolUseId # None THEN event.parentToolUseId
  ELSE IF event.toolName \in PARENT_TOOLS THEN None
  ELSE Top(stack)

\* ResolveParent with the bottom of the stack taken for its top
ResolveParent_Bottom(stack, event) ==
  IF event.toolName \in PARENT_TOOLS THEN None
  ELSE IF event.parentToolUseId # None THEN event.parentToolUseId
  ELSE IF Len(stack) > 0 THEN stack[1] ELSE None

\* lines 618-629: the parent a tool_start resolves
ResolveParent(stack, event) ==
  IF event.toolName \in PARENT_TOOLS THEN None
  ELSE IF event.parentToolUseId # None THEN event.parentToolUseId
  ELSE Top(stack)

\* processToolStart without the toolToParentMap.set of lines 637-639
processToolStart_NoMapEntry(mg, event, by) ==
  LET isParentTool == event.toolName \in PARENT_TOOLS
      parentToolUseId == ResolveParent(mg.parentToolStack, event)
      toolStartMessage == [Message("tool", <<"Running", event.toolName>>) EXCEPT
                             !.toolName = event.toolName,
                             !.toolUseId = event.toolUseId,
                             !.toolStatus = "pending",
                             !.parentToolUseId = parentToolUseId]
  IN [mg |-> [mg EXCEPT
                !.pendingTools = MapSet(mg.pendingTools, event.toolUseId, event.toolName),
                !.parentToolStack = IF isParentTool
                                    THEN Append(mg.parentToolStack, event.toolUseId)
                                    ELSE mg.parentToolStack,
                !.messages = Append(mg.messages, toolStartMessage)],
      out |-> << [SessionEvent("tool_start", mg.id, by) EXCEPT
                    !.toolName = event.toolName,
                    !.toolUseId = event.toolUseId,
                    !.parentToolUseId = parentToolUseId] >>]

processToolStart(mg, event, by) ==
  LET isParentTool == event.toolName \in PARENT_TOOLS
      parentToolUseId == ResolveParent(mg.parentToolStack, event)
      toolStartMessage == [Message("tool", <<"Running", event.toolName>>) EXCEPT
                             !.toolName = event.toolName,
                             !.toolUseId = event.toolUseId,
                             !.toolStatus = "pending",
                             !.parentToolUseId = parentToolUseId]
  IN [mg |-> [mg EXCEPT
                !.pendingTools = MapSet(mg.pendingTools, event.toolUseId, event.toolName),
                !.parentToolStack = IF isParentTool
                                    THEN Append(mg.parentToolStack, event.toolUseId)
                                    ELSE mg.parentToolStack,
                !.toolToParentMap = IF parentToolUseId # None
                                    THEN MapSet(mg.toolToParentMap, event.toolUseId, parentToolUseId)
                                    ELSE mg.toolToParentMap,
                !.messages = Append(mg.messages, toolStartMessage)],
      out |-> << [SessionEvent("tool_start", mg.id, by) EXCEPT
                    !.toolName = event.toolName,
                    !.toolUseId = event.toolUseId,
                    !.parentToolUseId = parentToolUseId] >>]

\* messages.find(m => m.toolUseId === id): index of the first match, 0 if none
FindToolMsg(messages, toolUseId) ==
  IF \E i \in 1 .. Len(messages) : messages[i].toolUseId = toolUseId
  THEN CHOOSE i \in 1 .. Len(messages) :
         /\ messages[i].toolUseId = toolUseId
         /\ \A j \in 1 .. (i - 1) : messages[j].toolUseId # toolUseId
  ELSE 0

\* CompleteToolMsg with the status assignment of line 692 left out
CompleteToolMsg_KeepsStatus(msg, event) ==
  [msg EXCEPT !.content = event.result,
              !.toolResult = event.result,
              !.isError = event.isError]

\* lines 689-694: the in-place update of the tool message found
CompleteToolMsg(msg, event) ==
  [msg EXCEPT !.content = event.result,
              !.toolResult = event.result,
              !.toolStatus = "completed",
              !.isError = event.isError]

\* processToolResult with the toolToParentMap entry preferred to the
\* parent of the message
processToolResult_MapFirst(mg, event, by) ==
  LET toolName == IF MapHas(mg.pendingTools, event.toolUseId)
                  THEN mg.pendingTools[event.toolUseId] ELSE "unknown"
      stackIndex == IndexOf(mg.parentToolStack, event.toolUseId)
      storedParentId == MapGet(mg.toolToParentMap, event.toolUseId)
      i == FindToolMsg(mg.messages, event.toolUseId)
      finalParentToolUseId ==
        IF storedParentId # None \/ i = 0
        THEN storedParentId ELSE mg.messages[i].parentToolUseId
  IN [mg |-> [mg EXCEPT
                !.pendingTools = MapDelete(mg.pendingTools, event.toolUseId),
                !.parentToolStack = IF stackIndex # 0
                                    THEN SpliceOut(mg.parentToolStack, stackIndex)
                                    ELSE mg.parentToolStack,
                !.toolToParentMap = MapDelete(mg.toolToParentMap, event.toolUseId),
                !.messages = IF i # 0
                             THEN [mg.messages EXCEPT ![i] = CompleteToolMsg(mg.messages[i], event)]
                             ELSE mg.messages],
      out |-> << [SessionEvent("tool_result", mg.id, by) EXCEPT
                    !.toolUseId = event.toolUseId,
                    !.toolName = toolName,
                    !.text = event.result,
                    !.parentToolUseId = finalParentToolUseId,
                    !.isError = event.isError] >>]

\* lines 672-709
processToolResult(mg, event, by) ==
  LET toolName == IF MapHas(mg.pendingTools, event.toolUseId)
                  THEN mg.pendingTools[event.toolUseId] ELSE "unknown"
      stackIndex == IndexOf(mg.parentToolStack, event.toolUseId)
      storedParentId == MapGet(mg.toolToParentMap, event.toolUseId)
      i == FindToolMsg(mg.messages, event.toolUseId)
      finalParentToolUseId ==
        IF i # 0 /\ mg.messages[i].parentToolUseId # None
        THEN mg.messages[i].parentToolUseId ELSE storedParentId
  IN [mg |-> [mg EXCEPT
                !.pendingTools = MapDelete(mg.pendingTools, event.toolUseId),
                !.parentToolStack = IF stackIndex # 0
                                    THEN SpliceOut(mg.parentToolStack, stackIndex)
                                    ELSE mg.parentToolStack,
                !.toolToParentMap = MapDelete(mg.toolToParentMap, event.toolUseId),
                !.messages = IF i # 0
                             THEN [mg.messages EXCEPT ![i] = CompleteToolMsg(mg.messages[i], event)]
                             ELSE mg.messages],
      out |-> << [SessionEvent("tool_result", mg.id, by) EXCEPT
                    !.toolUseId = event.toolUseId,
                    !.toolName = toolName,
                    !.text = event.result,
                    !.parentToolUseId = finalParentToolUseId,
                    !.isError = event.isError] >>]

\* Passthrough without the two thinking cases
Passthrough_NoThinking == {"status", "info", "error", "permission_request"}

\* processDefault with the event forwarded under its own name
processDefault_Forwards(mg, event, by) ==
  [mg |-> mg, out |-> << SessionEvent(event.type, mg.id, by) >>]

\* lines 774-777, the default case: the event is logged, nothing else
processDefault(mg, event, by) == [mg |-> mg, out |-> <<>>]

\* status, info, thinking_delta, thinking_complete, permission_request
Passthrough == {"status", "info", "error", "thinking_delta", "thinking_complete",
                "permission_request"}

processEvent(mg, event, by) ==
  CASE event.type = "text_delta" -> processTextDelta(mg, event, by)
    [] event.type = "text_complete" -> processTextComplete(mg, event, by)
    [] event.type = "tool_start" -> processToolStart(mg, event, by)
    [] event.type = "tool_result" -> processToolResult(mg, event, by)
    [] event.type \in Passthrough ->
         [mg |-> mg,
          out |-> << [SessionEvent(event.type, mg.id, by) EXCEPT !.text = event.text] >>]
    [] event.type = "typed_error" ->
         [mg |-> mg,
          out |-> << [SessionEvent("error", mg.id, by) EXCEPT !.text = event.text] >>]
    [] OTHER -> processDefault(mg, event, by)

\* --------------------------------------------------------- broadcastEvent
\* sse.ts broadcastEvent, applied to each event of evs in turn: every
\* registered controller that is writable gets the frame; one whose enqueue
\* throws is deleted from `clients`.
Writable(k) == chan[k].state = "open"

\* BroadcastClients with the catch of lines 70-73 doing nothing
BroadcastClients_KeepsFailed(evs) == clients

BroadcastClients(evs) ==
  IF evs = <<>> THEN clients ELSE {k \in clients : Writable(k)}

\* BroadcastChan with each controller holding only the frame enqueued last
BroadcastChan_LatestOnly(evs) ==
  [k \in ClientIds |->
     IF k \in clients /\ Writable(k) /\ evs # <<>>
     THEN [chan[k] EXCEPT !.recv = << chan[k].recv[1], evs[Len(evs)] >>]
     ELSE chan[k]]

BroadcastChan(evs) ==
  [k \in ClientIds |->
     IF k \in clients /\ Writable(k)
     THEN [chan[k] EXCEPT !.recv = chan[k].recv \o evs]
     ELSE chan[k]]

broadcast(evs) ==
  /\ published' = published \o evs
  /\ clients' = BroadcastClients(evs)
  /\ chan' = BroadcastChan(evs)

\* ------------------------------------------------------------- sseHandler
\* the frame sseHandler enqueues first: { type: 'connected', timestamp }
Connected == SessionEvent("connected", None, 0)

\* sseHandler with the events published so far enqueued after `connected`
sseHandler_Replays(k) ==
  /\ chan[k].state = "unused"
  /\ \A j \in ClientIds : j < k => chan[j].state # "unused"
  /\ clients' = clients \cup {k}
  /\ chan' = [chan EXCEPT ![k] = [state |-> "open",
                                  recv |-> << Connected >> \o published,
                                  since |-> Len(published)]]
  /\ UNCHANGED <<stored, managedSessions, heap, agents, calls, nCalls, nCancels,
                 lastCancel, published, aborts>>

\* sseHandler(req), the k-th connection: start() registers the controller
\* and enqueues `connected`.  `since` is bookkeeping: how many events had
\* been published when the subscriber connected.
sseHandler(k) ==
  /\ chan[k].state = "unused"
  /\ \A j \in ClientIds : j < k => chan[j].state # "unused"
  /\ clients' = clients \cup {k}
  /\ chan' = [chan EXCEPT ![k] = [state |-> "open",
                                  recv |-> << Connected >>,
                                  since |-> Len(published)]]
  /\ UNCHANGED <<stored, managedSessions, heap, agents, calls, nCalls, nCancels,
                 lastCancel, published, aborts>>

\* sseAbort without the clients.delete of line 36
sseAbort_KeepsRegistered(k) ==
  /\ chan[k].state \in {"open", "cancelled"}
  /\ chan' = [chan EXCEPT ![k].state = "closed"]
  /\ UNCHANGED <<stored, managedSessions, heap, agents, calls, nCalls, nCancels,
                 lastCancel, clients, published, aborts>>

\* the 'abort' listener of lines 35-42: the controller is deleted from
\* `clients` and closed (close() on a stream already cancelled throws, caught)
sseAbort(k) ==
  /\ chan[k].state \in {"open", "cancelled"}
  /\ clients' = clients \ {k}
  /\ chan' = [chan EXCEPT ![k].state = "closed"]
  /\ UNCHANGED <<stored, managedSessions, heap, agents, calls, nCalls, nCancels,
                 lastCancel, published, aborts>>

\* the consumer cancels the stream (the client went away): cancel() of
\* lines 44-46 does nothing, the controller stays in `clients`, and every
\* later enqueue on it throws
streamCancel(k) ==
  /\ chan[k].state = "open"
  /\ chan' = [chan EXCEPT ![k].state = "cancelled"]
  /\ UNCHANGED <<stored, managedSessions, heap, agents, calls, nCalls, nCancels,
                 lastCancel, clients, published, aborts>>

\* ------------------------------------------------------------ forceAbort
\* CraftAgent.forceAbort(reason) on agent a: recorded; every chat() sequence
\* running on a is from now on an aborted one.
AbortRecord(a, reason, by, sessionId) ==
  [agent |-> a, reason |-> reason, by |-> by, sessionId |-> sessionId,
   at |-> Len(published)]

MarkAborted(cs, a) ==
  [c \in CallIds |->
     IF cs[c].pc = "loop" /\ cs[c].agent = a
     THEN [cs[c] EXCEPT !.aborted = TRUE] ELSE cs[c]]

\* ---------------------------------------------------------- the handlers
ErrorThenComplete(sessionId, by) ==
  << SessionEvent("error", sessionId, by), SessionEvent("complete", sessionId, by) >>

\* Lookup with one ManagedSession serving every session id
Lookup_Any(sessionId) ==
  IF DOMAIN managedSessions # {}
  THEN managedSessions[CHOOSE k \in DOMAIN managedSessions : TRUE]
  ELSE NoObj

\* line 397: this.managedSessions.get(sessionId)
Lookup(sessionId) ==
  IF MapHas(managedSessions, sessionId) THEN managedSessions[sessionId] ELSE NoObj

\* rpcReturn with the promise of sm.sendMessage awaited: nothing is returned
\* while it is pending, its rejection is the error of the call
rpcReturn_Awaits(promise) ==
  CASE promise = "pending" -> None
    [] promise = "rejected" -> "error"
    [] OTHER -> "started"

\* rpcHandler case 'sendMessage': the promise of sm.sendMessage is not
\* awaited and its rejection is taken by the .catch; whatever the state of
\* the promise, what the caller holds is { started: true }.
rpcReturn(promise) == "started"

\* rpcHandler case 'sendMessage' calls sm.sendMessage(...) and returns; the
\* invocation runs up to its first suspension, inside
\* getOrCreateManagedSession: the map lookup of line 397.
rpcSendMessage(sessionId, maxCalls) ==
  /\ nCalls < maxCalls
  /\ nCalls' = nCalls + 1
  /\ calls' = [calls EXCEPT ![nCalls + 1] =
                 [IdleCall EXCEPT !.pc = "getManaged", !.sid = sessionId,
                                  !.m = Lookup(sessionId),
                                  !.rpc = rpcReturn("pending")]]
  /\ UNCHANGED <<stored, managedSessions, heap, agents, nCancels, lastCancel,
                 clients, chan, published, aborts>>

\* BeginTurn with the message list started afresh for the turn
BeginTurn_FreshMessages(mg, c) ==
  [mg EXCEPT !.messages = << Message("user", <<"u">>) >>,
             !.isProcessing = TRUE,
             !.streamingText = <<>>,
             !.pendingTools = EmptyMap,
             !.parentToolStack = <<>>,
             !.toolToParentMap = EmptyMap,
             !.turn = c,
             !.sinceContainer = None]

\* lines 486-509 on the ManagedSession mg
BeginTurn(mg, c) ==
  [mg EXCEPT !.messages = Append(mg.messages, Message("user", <<"u">>)),
             !.isProcessing = TRUE,
             !.streamingText = <<>>,
             !.pendingTools = EmptyMap,
             !.parentToolStack = <<>>,
             !.toolToParentMap = EmptyMap,
             !.turn = c,
             !.sinceContainer = None]

\* line 481
MustRedirect(mg) == mg.isProcessing /\ mg.agent # NoObj

\* getOrCreateManagedSession resumes (lines 403-427 when the lookup missed),
\* then sendMessage runs lines 480-512 up to the await of getOrCreateAgent.
\* A session storage does not hold makes sendMessage reject: the catch of
\* the rpcHandler publishes `error` and `complete`.
sendMessageBegin(c) ==
  /\ calls[c].pc = "getManaged"
  /\ LET sid == calls[c].sid
         found == calls[c].m # NoObj
     IN IF ~found /\ sid \notin stored
        THEN /\ broadcast(ErrorThenComplete(sid, c))
             /\ calls' = [calls EXCEPT ![c].pc = "done",
                                       ![c].thrown = "notFound",
                                       ![c].rpc = rpcReturn("rejected")]
             /\ UNCHANGED <<stored, managedSessions, heap, agents, nCalls, nCancels,
                            lastCancel, aborts>>
        ELSE LET o == IF found THEN calls[c].m ELSE c
                 mg == IF found THEN heap[o] ELSE NewManagedSession(sid)
                 redirect == MustRedirect(mg)
                 cs == IF redirect THEN MarkAborted(calls, mg.agent) ELSE calls
             IN /\ managedSessions' = IF found THEN managedSessions
                                      ELSE MapSet(managedSessions, sid, c)
                /\ aborts' = IF redirect
                             THEN Append(aborts, AbortRecord(mg.agent, "Redirect", c, sid))
                             ELSE aborts
                /\ heap' = MapSet(heap, o, BeginTurn(mg, c))
                /\ broadcast(<< SessionEvent("user_message", sid, c) >>)
                /\ calls' = [cs EXCEPT ![c] =
                               [cs[c] EXCEPT !.pc = "getAgent", !.m = o,
                                             !.agent = mg.agent,
                                             !.begun = TRUE,
                                             !.sawProcessing = mg.isProcessing,
                                             !.base = Len(mg.messages)]]
                /\ UNCHANGED <<stored, agents, nCalls, nCancels, lastCancel>>

\* getOrCreateAgent resumes: lines 442-456 when line 435 found no agent (the
\* new agent is stored whatever managed.agent holds by now), then lines
\* 514-524: agent.chat() and the first next() of the for await.
sendMessageChat(c) ==
  /\ calls[c].pc = "getAgent"
  /\ LET create == calls[c].agent = NoObj
         o == calls[c].m
     IN /\ agents' = IF create THEN agents \cup {c} ELSE agents
        /\ heap' = IF create THEN [heap EXCEPT ![o].agent = c] ELSE heap
        /\ calls' = [calls EXCEPT ![c].pc = "loop",
                                  ![c].agent = IF create THEN c ELSE calls[c].agent]
  /\ UNCHANGED <<stored, managedSessions, nCalls, nCancels, lastCancel,
                 clients, chan, published, aborts>>

\* getOrCreateAgent rejects (loadStoredSession or the CraftAgent constructor
\* throws): line 512 is outside the try, so sendMessage rejects and the
\* catch of the rpcHandler publishes `error` and `complete`.
getOrCreateAgentThrows(c) ==
  /\ calls[c].pc = "getAgent"
  /\ calls[c].agent = NoObj
  /\ broadcast(ErrorThenComplete(calls[c].sid, c))
  /\ calls' = [calls EXCEPT ![c].pc = "done",
                            ![c].completes = calls[c].completes + 1,
                            ![c].thrown = "agent",
                            ![c].rpc = rpcReturn("rejected")]
  /\ UNCHANGED <<stored, managedSessions, heap, agents, nCalls, nCancels, lastCancel, aborts>>

\* agent events yielded so far, over all invocations
RECURSIVE YieldsUpTo(_)
YieldsUpTo(c) == IF c = 0 THEN 0 ELSE calls[c].n + YieldsUpTo(c - 1)
TotalYields == YieldsUpTo(MaxCalls)

\* Bookkeeping of what the agent reported of each tool id: "started" after
\* one tool_start, "resulted" after one tool_result following it, "other"
\* once the id was started twice, or resulted without a start or twice.
NextHist(hist, event) ==
  LET id == event.toolUseId
      was == MapGet(hist, id)
  IN IF event.type = "tool_start"
     THEN MapSet(hist, id, IF was = None THEN "started" ELSE "other")
     ELSE IF event.type = "tool_result"
     THEN MapSet(hist, id, IF was = "started" THEN "resulted" ELSE "other")
     ELSE hist

\* Bookkeeping of the container whose tool_start came last, while no
\* tool_result for it, no other container and no new turn came after it.
NextSinceContainer(since, event) ==
  IF event.type = "tool_start" /\ event.toolName \in PARENT_TOOLS THEN event.toolUseId
  ELSE IF event.type = "tool_result" /\ event.toolUseId = since THEN None
  ELSE since

\* the for await yields a non-terminal event: lines 524-529
chatYield(c, event, maxEvents) ==
  /\ calls[c].pc = "loop"
  /\ TotalYields < maxEvents
  /\ LET o == calls[c].m
         r == processEvent(heap[o], event, c)
     IN /\ heap' = [heap EXCEPT ![o] =
                      [r.mg EXCEPT !.hist = NextHist(heap[o].hist, event),
                                   !.sinceContainer =
                                      NextSinceContainer(heap[o].sinceContainer, event)]]
        /\ broadcast(r.out)
        /\ calls' = [calls EXCEPT ![c].n = calls[c].n + 1,
                                  ![c].last = event,
                                  ![c].seen = Append(calls[c].seen, event),
                                  ![c].late = IF calls[c].cancelled = "loud"
                                              THEN calls[c].late + Len(r.out)
                                              ELSE calls[c].late]
  /\ UNCHANGED <<stored, managedSessions, agents, nCalls, nCancels, lastCancel, aborts>>

\* chatComplete without the return of line 539: the loop goes on
chatComplete_KeepsConsuming(c) ==
  /\ calls[c].pc = "loop"
  /\ heap' = [heap EXCEPT ![calls[c].m].isProcessing = FALSE]
  /\ broadcast(<< SessionEvent("complete", calls[c].sid, c) >>)
  /\ calls' = [calls EXCEPT ![c].last = AgentEvent("complete"),
                            ![c].completes = calls[c].completes + 1]
  /\ UNCHANGED <<stored, managedSessions, agents, nCalls, nCancels, lastCancel, aborts>>

\* the for await yields `complete`: lines 529-539
chatComplete(c) ==
  /\ calls[c].pc = "loop"
  /\ LET o == calls[c].m
         r == processEvent(heap[o], AgentEvent("complete"), c)
     IN /\ heap' = [heap EXCEPT ![o] = [r.mg EXCEPT !.isProcessing = FALSE]]
        /\ broadcast(r.out \o << SessionEvent("complete", calls[c].sid, c) >>)
  /\ calls' = [calls EXCEPT ![c].pc = "done",
                            ![c].last = AgentEvent("complete"),
                            ![c].completes = calls[c].completes + 1,
                            ![c].rpc = rpcReturn("resolved")]
  /\ UNCHANGED <<stored, managedSessions, agents, nCalls, nCancels, lastCancel, aborts>>

\* values a failing agent sequence throws: an Error with a message, or
\* something that is not an Error
Boom == [isError |-> TRUE, message |-> <<"boom">>]
NotAnError == [isError |-> FALSE, message |-> NoText]
Thrown == {Boom, NotAnError}

\* ErrorMessage with the message of the Error dropped
ErrorMessage_Unknown(err) == <<"Unknown error">>

\* line 551: error instanceof Error ? error.message : 'Unknown error'
ErrorMessage(err) == IF err.isError THEN err.message ELSE <<"Unknown error">>

\* agent.chat() or the sequence throws err: the catch of lines 542-558
chatThrows(c, err) ==
  /\ calls[c].pc = "loop"
  /\ heap' = [heap EXCEPT ![calls[c].m].isProcessing = FALSE]
  /\ broadcast(<< [SessionEvent("error", calls[c].sid, c) EXCEPT
                     !.text = ErrorMessage(err)],
                  SessionEvent("complete", calls[c].sid, c) >>)
  /\ calls' = [calls EXCEPT ![c].pc = "done",
                            ![c].completes = calls[c].completes + 1,
                            ![c].thrown = "chat",
                            ![c].caught = err,
                            ![c].rpc = rpcReturn("resolved")]
  /\ UNCHANGED <<stored, managedSessions, agents, nCalls, nCancels, lastCancel, aborts>>

\* CanCancel without the isProcessing test
CanCancel_IgnoresFlag(sessionId) ==
  /\ MapHas(managedSessions, sessionId)
  /\ heap[managedSessions[sessionId]].agent # NoObj

\* line 786
CanCancel(sessionId) ==
  /\ MapHas(managedSessions, sessionId)
  /\ heap[managedSessions[sessionId]].agent # NoObj
  /\ heap[managedSessions[sessionId]].isProcessing

\* cancelProcessing(sessionId, silent): lines 784-797, no suspension inside
cancelProcessing(sessionId, silent, maxCancels) ==
  /\ nCancels < maxCancels
  /\ nCancels' = nCancels + 1
  /\ lastCancel' = [sessionId |-> sessionId, silent |-> silent,
                     hit |-> CanCancel(sessionId)]
  /\ IF CanCancel(sessionId)
     THEN LET o == managedSessions[sessionId]
              mg == heap[o]
              cs == MarkAborted(calls, mg.agent)
          IN /\ aborts' = Append(aborts, AbortRecord(mg.agent, "UserStop", 0, sessionId))
             /\ heap' = [heap EXCEPT ![o].isProcessing = FALSE]
             /\ broadcast(IF silent THEN <<>>
                          ELSE << SessionEvent("complete", sessionId, 0) >>)
             /\ calls' = [cs EXCEPT ![mg.turn] =
                            [cs[mg.turn] EXCEPT
                               !.cancelled = IF silent /\ cs[mg.turn].cancelled = "no"
                                             THEN "silent"
                                             ELSE IF silent THEN cs[mg.turn].cancelled
                                             ELSE "loud",
                               !.completes = IF silent THEN cs[mg.turn].completes
                                             ELSE cs[mg.turn].completes + 1]]
     ELSE UNCHANGED <<heap, calls, aborts, clients, chan, published>>
  /\ UNCHANGED <<stored, managedSessions, agents, nCalls>>

\* deleteSession(sessionId), lines 378-383: deleteStoredSession is awaited;
\* storage no longer holds the session.  For an id storage does not hold
\* the call throws inside the try and deleteSession changes nothing.
deleteSessionStored(sessionId) ==
  /\ sessionId \in stored
  /\ stored' = stored \ {sessionId}
  /\ UNCHANGED <<managedSessions, heap, agents, calls, nCalls, nCancels,
                 lastCancel, clients, chan, published, aborts>>

\* deleteSession resumes, line 384: the entry is deleted from the map, and
\* nothing else is done (no forceAbort, no flag, no event).  A delete is
\* pending exactly for the ids storage held at the start and holds no more;
\* no entry for such an id can appear after this step.
deleteSessionManaged(sessionId) ==
  /\ sessionId \in StoredIds \ stored
  /\ MapHas(managedSessions, sessionId)
  /\ managedSessions' = MapDelete(managedSessions, sessionId)
  /\ UNCHANGED <<stored, heap, agents, calls, nCalls, nCancels,
                 lastCancel, clients, chan, published, aborts>>

\* ------------------------------------------------------------------ Init
Init ==
  /\ stored = StoredIds
  /\ managedSessions = EmptyMap
  /\ heap = EmptyMap
  /\ agents = {}
  /\ calls = [c \in CallIds |-> IdleCall]
  /\ nCalls = 0
  /\ nCancels = 0
  /\ lastCancel = [sessionId |-> None, silent |-> FALSE, hit |-> FALSE]
  /\ clients = {}
  /\ chan = [k \in ClientIds |-> [state |-> "unused", recv |-> <<>>, since |-> 0]]
  /\ published = <<>>
  /\ aborts = <<>>

\* ------------------------------------------- the turn-lifecycle behaviours
\* Agent events of the lifecycle specification: one that accumulates text,
\* one that adds a tool message, one passthrough.
LifeEvents ==
  { [AgentEvent("text_delta") EXCEPT !.text = <<"a">>],
    [AgentEvent("tool_start") EXCEPT !.toolUseId = "t1", !.toolName = "Read"],
    AgentEvent("status") }

Next ==
  \/ \E sid \in SessionIds : rpcSendMessage(sid, MaxCalls)
  \/ \E c \in CallIds : sendMessageBegin(c)
  \/ \E c \in CallIds : sendMessageChat(c)
  \/ \E c \in CallIds : getOrCreateAgentThrows(c)
  \/ \E c \in CallIds, ev \in LifeEvents : chatYield(c, ev, MaxEvents)
  \/ \E c \in CallIds : chatComplete(c)
  \/ \E c \in CallIds, err \in {Boom} : chatThrows(c, err)
  \/ \E sid \in SessionIds, silent \in BOOLEAN :
       CanCancel(sid) /\ cancelProcessing(sid, silent, MaxCancels)

Spec == Init /\ [][Next]_vars

\* --------------------------------------------- the tool-tracking behaviours
\* Turns on one session, one after the other, whose agent reports tools:
\* a container and plain tools, with and without an explicit parent id, ids
\* reused at will, results with and without a start, failed or not.
ToolStarts ==
  { [AgentEvent("tool_start") EXCEPT !.toolUseId = "t1", !.toolName = "Task"],
    [AgentEvent("tool_start") EXCEPT !.toolUseId = "t1", !.toolName = "Read"],
    [AgentEvent("tool_start") EXCEPT !.toolUseId = "t2", !.toolName = "Read"],
    [AgentEvent("tool_start") EXCEPT !.toolUseId = "t2", !.toolName = "Read",
                                     !.parentToolUseId = "t1"] }

ToolResults ==
  { [AgentEvent("tool_result") EXCEPT !.toolUseId = "t1", !.result = <<"r">>],
    [AgentEvent("tool_result") EXCEPT !.toolUseId = "t2", !.isError = TRUE] }

ToolEvents == ToolStarts \cup ToolResults

\* the client sends the next message once the turn before it has ended
Quiescent == \A c \in CallIds : calls[c].pc \in {"idle", "done"}

NextTools ==
  \/ \E sid \in {"s1"} : Quiescent /\ rpcSendMessage(sid, MaxCalls)
  \/ \E c \in CallIds : sendMessageBegin(c)
  \/ \E c \in CallIds : sendMessageChat(c)
  \/ \E c \in CallIds, ev \in ToolEvents : chatYield(c, ev, MaxToolEvents)
  \/ \E c \in CallIds : chatComplete(c)
  \/ \E c \in CallIds, err \in {Boom} : chatThrows(c, err)

SpecTools == Init /\ [][NextTools]_vars

\* --------------------------------------------------- the nesting behaviours
\* The first turn of each of two sessions, the two overlapping at will;
\* the agents start two containers and a plain tool without an explicit
\* parent, and close one container.
NestEvents ==
  { [AgentEvent("tool_start") EXCEPT !.toolUseId = "t1", !.toolName = "Task"],
    [AgentEvent("tool_start") EXCEPT !.toolUseId = "t2", !.toolName = "TaskOutput"],
    [AgentEvent("tool_start") EXCEPT !.toolUseId = "t3", !.toolName = "Read"],
    [AgentEvent("tool_result") EXCEPT !.toolUseId = "t1", !.result = <<"r">>] }

FirstTurn(sessionId) == \A c \in CallIds : calls[c].sid # sessionId

NextNest ==
  \/ \E sid \in StoredIds : FirstTurn(sid) /\ rpcSendMessage(sid, MaxCalls)
  \/ \E c \in CallIds : sendMessageBegin(c)
  \/ \E c \in CallIds : sendMessageChat(c)
  \/ \E c \in CallIds, ev \in NestEvents : chatYield(c, ev, MaxNestEvents)
  \/ \E c \in CallIds : chatComplete(c)

SpecNest == Init /\ [][NextNest]_vars

\* ------------------------------------------------ the streaming behaviours
\* Turns on one session, one after the other, whose agent streams text:
\* deltas, final and intermediate text_complete, and a container start
\* (so that text can have a parent); a turn ends with `complete` or throws.
TextEvents ==
  { [AgentEvent("text_delta") EXCEPT !.text = <<"a">>],
    [AgentEvent("text_delta") EXCEPT !.text = <<"b">>],
    [AgentEvent("text_complete") EXCEPT !.text = <<"a", "b">>],
    [AgentEvent("text_complete") EXCEPT !.text = <<"a">>, !.isIntermediate = TRUE],
    [AgentEvent("tool_start") EXCEPT !.toolUseId = "t1", !.toolName = "Task"] }

NextText ==
  \/ \E sid \in {"s1"} : Quiescent /\ rpcSendMessage(sid, MaxCalls)
  \/ \E c \in CallIds : sendMessageBegin(c)
  \/ \E c \in CallIds : sendMessageChat(c)
  \/ \E c \in CallIds, ev \in TextEvents : chatYield(c, ev, MaxTextEvents)
  \/ \E c \in CallIds : chatComplete(c)
  \/ \E c \in CallIds, err \in Thrown : chatThrows(c, err)

SpecText == Init /\ [][NextText]_vars

\* -------------------------------------------------- the two-session behaviours
\* The first turn of each of two sessions and of an id storage does not
\* know, overlapping at will, failing or not, and cancelled or not.
PairEvents ==
  { [AgentEvent("tool_start") EXCEPT !.toolUseId = "t1", !.toolName = "Task"] }

NextPair ==
  \/ \E sid \in SessionIds : FirstTurn(sid) /\ rpcSendMessage(sid, MaxCalls)
  \/ \E c \in CallIds : sendMessageBegin(c)
  \/ \E c \in CallIds : sendMessageChat(c)
  \/ \E c \in CallIds : getOrCreateAgentThrows(c)
  \/ \E c \in CallIds, ev \in PairEvents : chatYield(c, ev, MaxPairEvents)
  \/ \E c \in CallIds : chatComplete(c)
  \/ \E c \in CallIds, err \in {Boom} : chatThrows(c, err)
  \/ \E sid \in SessionIds, silent \in BOOLEAN :
       CanCancel(sid) /\ cancelProcessing(sid, silent, MaxCancels)

SpecPair == Init /\ [][NextPair]_vars

\* ------------------------------------------------- the cancelling behaviours
\* Turns on one session, one after the other, and cancelProcessing at any
\* moment (while a turn runs, before, after, twice in a row) on that
\* session, on a stored session never opened, and on an unknown id.
CancelEvents ==
  { [AgentEvent("text_delta") EXCEPT !.text = <<"a">>] }

NextCancel ==
  \/ \E sid \in {"s1"} : Quiescent /\ rpcSendMessage(sid, MaxCalls)
  \/ \E c \in CallIds : sendMessageBegin(c)
  \/ \E c \in CallIds : sendMessageChat(c)
  \/ \E c \in CallIds, ev \in CancelEvents : chatYield(c, ev, MaxCancelEvents)
  \/ \E c \in CallIds : chatComplete(c)
  \/ \E sid \in SessionIds, silent \in BOOLEAN :
       cancelProcessing(sid, silent, MaxIdleCancels)

SpecCancel == Init /\ [][NextCancel]_vars

\* --------------------------------------------------- the fan-out behaviours
\* One turn on one session, and SSE connections that come, go away by the
\* abort of their request, or are cancelled by their consumer, at any point
\* of the turn.
SseEvents ==
  { [AgentEvent("text_delta") EXCEPT !.text = <<"a">>],
    AgentEvent("status") }

NextSse ==
  \/ \E sid \in {"s1"} : FirstTurn(sid) /\ rpcSendMessage(sid, MaxCalls)
  \/ \E c \in CallIds : sendMessageBegin(c)
  \/ \E c \in CallIds : sendMessageChat(c)
  \/ \E c \in CallIds, ev \in SseEvents : chatYield(c, ev, MaxSseEvents)
  \/ \E c \in CallIds : chatComplete(c)
  \/ \E c \in CallIds, err \in {Boom} : chatThrows(c, err)
  \/ \E k \in ClientIds : sseHandler(k)
  \/ \E k \in ClientIds : sseAbort(k)
  \/ \E k \in ClientIds : streamCancel(k)

SpecSse == Init /\ [][NextSse]_vars

\* =================================================================== claims

\* A turn: an invocation that ran lines 486-509.  It is in flight until a
\* `complete` was published for it or cancelProcessing hit it.
InFlight(c) ==
  calls[c].begun /\ calls[c].completes = 0 /\ calls[c].cancelled = "no"

\* C1: every turn sendMessage began gets exactly one `complete`: never two,
\* and one once the invocation has ended, however its agent sequence ended.
C1_ExactlyOneComplete ==
  \A c \in CallIds :
    calls[c].begun =>
      /\ calls[c].completes <= 1
      /\ (calls[c].pc = "done" => calls[c].completes = 1)

\* C2: a turn a non-silent cancelProcessing ended has the `complete` of the
\* cancel as its only one, whatever its still running loop receives later.
C2_CancelledTurnOneComplete ==
  \A c \in CallIds :
    (calls[c].cancelled = "loud" /\ calls[c].pc = "done") => calls[c].completes = 1

\* C3: single-flight: no two invocations on one session consume an agent
\* sequence (neither of them aborted) at the same instant.
Consuming(c) == calls[c].pc = "loop" /\ ~calls[c].aborted

C3_SingleFlight ==
  \A c1, c2 \in CallIds :
    (c1 # c2 /\ Consuming(c1) /\ Consuming(c2)) => calls[c1].sid # calls[c2].sid

\* C4: a sendMessage that found isProcessing true issued exactly one
\* forceAbort(Redirect), to the session's agent, before its user_message.
RedirectsBy(c) ==
  {i \in 1 .. Len(aborts) : aborts[i].by = c /\ aborts[i].reason = "Redirect"}

UserMessageIndex(c) ==
  CHOOSE i \in 1 .. Len(published) :
    published[i].type = "user_message" /\ published[i].by = c

C4_OneRedirectBeforeUserMessage ==
  \A c \in CallIds :
    (calls[c].begun /\ calls[c].sawProcessing) =>
      /\ Cardinality(RedirectsBy(c)) = 1
      /\ \A i \in RedirectsBy(c) :
           /\ aborts[i].sessionId = calls[c].sid
           /\ aborts[i].at < UserMessageIndex(c)

\* C5: once cancelProcessing published `complete` for a turn, nothing the
\* turn's agent sequence still yields is published.
C5_NothingAfterCancelComplete ==
  \A c \in CallIds : calls[c].late = 0

\* C6: a superseded turn (another invocation began a turn on the session
\* after it) no longer changes the session: no event it still processes
\* and no end of its loop touches the ManagedSession.
Superseded(c) ==
  calls[c].pc = "loop" /\ heap[calls[c].m].turn # c

LoopStep(c) ==
  calls[c].pc = "loop" /\ (calls'[c].n # calls[c].n \/ calls'[c].pc # "loop")

C6_SupersededTurnDiscarded ==
  [][\A c \in CallIds :
       (Superseded(c) /\ LoopStep(c)) => heap'[calls[c].m] = heap[calls[c].m]]_vars

\* C7: isProcessing is true exactly while a turn of the session is in flight.
C7_ProcessingIffInFlight ==
  \A o \in DOMAIN heap :
    heap[o].isProcessing <=> (\E c \in CallIds : InFlight(c) /\ calls[c].m = o)

\* the tool messages of invocation id `id`
ToolMsgs(mg, id) ==
  {i \in 1 .. Len(mg.messages) : mg.messages[i].toolUseId = id}

\* C8: the message list never holds two tool messages of one invocation id.
C8_OneToolMessagePerId ==
  \A o \in DOMAIN heap : \A id \in AllToolIds :
    Cardinality(ToolMsgs(heap[o], id)) <= 1

\* C9: an invocation id the agent started once has exactly one tool
\* message: pending until its result, completed from its result on.
C9_PairYieldsOneMessage ==
  \A o \in DOMAIN heap : \A id \in DOMAIN heap[o].hist :
    LET h == heap[o].hist[id]
        ms == ToolMsgs(heap[o], id)
    IN h \in {"started", "resulted"} =>
         /\ Cardinality(ms) = 1
         /\ \A i \in ms :
              /\ heap[o].messages[i].role = "tool"
              /\ heap[o].messages[i].toolStatus =
                   IF h = "started" THEN "pending" ELSE "completed"

\* two pairs, interleaved: start t1, start t2, result t1, result t2
C9_Witness ==
  /\ \E o \in DOMAIN heap :
       /\ MapGet(heap[o].hist, "t1") = "resulted"
       /\ MapGet(heap[o].hist, "t2") = "resulted"
  /\ \E i, j, k, l \in 1 .. Len(published) :
       /\ i < j /\ j < k /\ k < l
       /\ published[i].type = "tool_start" /\ published[i].toolUseId = "t1"
       /\ published[j].type = "tool_start" /\ published[j].toolUseId = "t2"
       /\ published[k].type = "tool_result" /\ published[k].toolUseId = "t1"
       /\ published[l].type = "tool_result" /\ published[l].toolUseId = "t2"

\* C10: while a container is the one started last (sinceContainer), every
\* plain tool_start without explicit parent gets it as parent: in the tool
\* message appended and in the outward tool_start.
NestedStart(c) ==
  /\ calls[c].pc = "loop"
  /\ calls'[c].n = calls[c].n + 1
  /\ calls'[c].last.type = "tool_start"
  /\ calls'[c].last.toolName \notin PARENT_TOOLS
  /\ calls'[c].last.parentToolUseId = None
  /\ heap[calls[c].m].sinceContainer # None

C10_NestedParentIsContainer ==
  [][\A c \in CallIds :
       NestedStart(c) =>
         LET container == heap[calls[c].m].sinceContainer
             msgs == heap'[calls[c].m].messages
             sent == published'[Len(published')]
         IN /\ Len(msgs) = Len(heap[calls[c].m].messages) + 1
            /\ msgs[Len(msgs)].toolUseId = calls'[c].last.toolUseId
            /\ msgs[Len(msgs)].parentToolUseId = container
            /\ sent.type = "tool_start"
            /\ sent.sessionId = calls[c].sid
            /\ sent.parentToolUseId = container]_vars

\* Task t1 on s1, a container started on s2, then two plain tools on s1,
\* both under t1
C10_Witness ==
  \E i, j, k, l \in 1 .. Len(published) :
    /\ i < j /\ j < k /\ k < l
    /\ published[i].sessionId = "s1" /\ published[i].type = "tool_start"
    /\ published[i].toolName = "Task" /\ published[i].toolUseId = "t1"
    /\ published[j].sessionId = "s2" /\ published[j].type = "tool_start"
    /\ published[j].toolName = "TaskOutput"
    /\ published[k].sessionId = "s1" /\ published[k].type = "tool_start"
    /\ published[k].toolName = "Read" /\ published[k].parentToolUseId = "t1"
    /\ published[l].sessionId = "s1" /\ published[l].type = "tool_start"
    /\ published[l].toolName = "Read" /\ published[l].parentToolUseId = "t1"

\* ------------------------------------------------------------ cancelling
\* the session is processing: it has a ManagedSession whose flag is set
Processing(sessionId) ==
  /\ MapHas(managedSessions, sessionId)
  /\ heap[managedSessions[sessionId]].isProcessing

\* C12: a cancelProcessing naming a session that is not processing (no
\* ManagedSession, or isProcessing false: idle, or just cancelled) changes
\* nothing: no event published, no forceAbort, no session state touched.
C12_CancelIdleIsNoOp ==
  [][(nCancels' = nCancels + 1 /\ ~Processing(lastCancel'.sessionId)) =>
       UNCHANGED <<stored, managedSessions, heap, agents, calls, nCalls,
                   clients, chan, published, aborts>>]_vars

\* a turn on s1 was cancelled, and a second cancelProcessing on s1 came
\* while its loop was still running: one forceAbort, one `complete`
C12_Witness ==
  /\ nCancels = 2
  /\ lastCancel.sessionId = "s1" /\ ~lastCancel.hit
  /\ Len(aborts) = 1
  /\ aborts[1].reason = "UserStop"
  /\ \E c \in CallIds :
       /\ calls[c].pc = "loop"
       /\ calls[c].cancelled = "loud"
       /\ calls[c].completes = 1
       /\ heap[calls[c].m].agent # NoObj
       /\ ~heap[calls[c].m].isProcessing

\* ----------------------------------------------------- turn initiation
\* `error` directly followed by `complete`, both published by invocation c
ErrorReported(c) ==
  \E i \in 1 .. (Len(published) - 1) :
    /\ published[i].type = "error"
    /\ published[i].sessionId = calls[c].sid /\ published[i].by = c
    /\ published[i + 1] = SessionEvent("complete", calls[c].sid, c)

\* C18: from the moment it is made, an RPC sendMessage has returned
\* { started: true } to its caller, whatever the turn does later; a turn
\* that failed (session not found, agent not created, agent sequence
\* threw) is reported by `error` and `complete` on the event stream, and
\* the value the caller holds is still { started: true }.
C18_FireAndForget ==
  \A c \in CallIds :
    calls[c].pc # "idle" =>
      /\ calls[c].rpc = "started"
      /\ (calls[c].thrown # "no" => (calls[c].pc = "done" /\ ErrorReported(c)))

\* one turn failed in its agent sequence, another found no session, a
\* third case: the call returned while its turn is still running
C18_Witness ==
  \E c1, c2 \in CallIds :
    /\ calls[c1].thrown = "chat" /\ calls[c1].rpc = "started"
    /\ calls[c2].thrown = "notFound" /\ calls[c2].rpc = "started"

\* C19: a sendMessage naming a session storage does not hold publishes
\* nothing: the fault goes to the caller only.
C19_NotFoundNotBroadcast ==
  \A c \in CallIds :
    calls[c].thrown = "notFound" =>
      \A i \in 1 .. Len(published) : published[i].by # c

\* ----------------------------------------------------------- two sessions
\* the session the step is for: of the invocation that moved, or of the
\* cancelProcessing made
StepSessions ==
  {calls'[c].sid : c \in {x \in CallIds : \/ calls'[x].pc # calls[x].pc
                                           \/ calls'[x].n # calls[x].n}}
    \cup (IF nCancels' # nCancels THEN {lastCancel'.sessionId} ELSE {})

\* C20: a step for session A (of a sendMessage, of its loop, of a
\* cancelProcessing) leaves the ManagedSession of every other session, its
\* map entry and its invocations as they were, and every event it
\* publishes and every forceAbort it issues is of session A.
C20_SessionsIndependent ==
  [][\A A \in StepSessions :
       /\ \A o \in DOMAIN heap : heap[o].id # A => heap'[o] = heap[o]
       /\ \A o \in (DOMAIN heap') \ (DOMAIN heap) : heap'[o].id = A
       /\ \A sid \in SessionIds \ {A} :
            /\ MapHas(managedSessions', sid) = MapHas(managedSessions, sid)
            /\ MapHas(managedSessions, sid) => managedSessions'[sid] = managedSessions[sid]
       /\ \A c \in CallIds : calls[c].sid \notin {A, None} => calls'[c] = calls[c]
       /\ \A i \in (Len(published) + 1) .. Len(published') : published'[i].sessionId = A
       /\ \A i \in (Len(aborts) + 1) .. Len(aborts') : aborts'[i].sessionId = A]_vars

\* s1 got a tool message and was cancelled while the turn of s2 runs on
C20_Witness ==
  \E o1, o2 \in DOMAIN heap :
    /\ heap[o1].id = "s1" /\ heap[o2].id = "s2"
    /\ Len(heap[o1].messages) = 2 /\ ~heap[o1].isProcessing
    /\ heap[o1].parentToolStack = << "t1" >>
    /\ Len(heap[o2].messages) = 1 /\ heap[o2].isProcessing
    /\ heap[o2].parentToolStack = <<>> /\ heap[o2].agent # NoObj
    /\ lastCancel.sessionId = "s1" /\ lastCancel.hit

\* --------------------------------------------------------- streamed turns
\* the agent sequence invocation c consumed was k text_delta events and
\* then one text_complete that is not intermediate (`complete` ended it)
DeltasThenFinalText(c) ==
  LET seen == calls[c].seen
  IN /\ calls[c].pc = "done"
     /\ calls[c].thrown = "no"
     /\ Len(seen) >= 1
     /\ seen[Len(seen)].type = "text_complete"
     /\ ~seen[Len(seen)].isIntermediate
     /\ \A i \in 1 .. (Len(seen) - 1) : seen[i].type = "text_delta"

\* the outward events invocation c published, in publish order
PublishedBy(c) == SelectSeq(published, LAMBDA e : e.by = c)

\* user_message, one text_delta per delta of the agent, text_complete, complete
ExpectedOfText(c) ==
  LET seen == calls[c].seen
      sid == calls[c].sid
      k == Len(seen) - 1
  IN << SessionEvent("user_message", sid, c) >>
       \o [i \in 1 .. k |-> [SessionEvent("text_delta", sid, c) EXCEPT !.text = seen[i].text]]
       \o << [SessionEvent("text_complete", sid, c) EXCEPT !.text = seen[k + 1].text],
             SessionEvent("complete", sid, c) >>

\* C13: an uninterrupted turn of k deltas, a final text_complete and
\* complete publishes exactly user_message, the k deltas in order,
\* text_complete, complete; and adds to the messages exactly the user
\* message and one assistant message with the text and no parent.
C13_TextTurnExactSequence ==
  \A c \in CallIds :
    DeltasThenFinalText(c) =>
      LET mg == heap[calls[c].m]
          b == calls[c].base
          text == calls[c].seen[Len(calls[c].seen)].text
      IN /\ PublishedBy(c) = ExpectedOfText(c)
         /\ Len(mg.messages) >= b + 2
         /\ (mg.turn = c => Len(mg.messages) = b + 2)
         /\ mg.messages[b + 1] = Message("user", <<"u">>)
         /\ mg.messages[b + 2] = Message("assistant", text)

\* delta a, delta b, text_complete, complete
C13_Witness ==
  \E c \in CallIds :
    /\ DeltasThenFinalText(c)
    /\ Len(calls[c].seen) = 3
    /\ calls[c].seen[1].text = <<"a">>
    /\ calls[c].seen[2].text = <<"b">>
    /\ Len(PublishedBy(c)) = 5

\* ------------------------------------------------------------ tool results
\* the loop of invocation c processes a tool_result whose id the agent
\* never started on the session
UnknownResult(c) ==
  /\ calls[c].pc = "loop"
  /\ calls'[c].n = calls[c].n + 1
  /\ calls'[c].last.type = "tool_result"
  /\ MapGet(heap[calls[c].m].hist, calls'[c].last.toolUseId) = None

\* C11: a tool_result of an id never started does not raise (the loop goes
\* on), leaves messages, pendingTools, parentToolStack and toolToParentMap
\* as they were, and publishes one tool_result whose toolName is "unknown".
C11_UnknownResultHarmless ==
  [][\A c \in CallIds :
       UnknownResult(c) =>
         LET o == calls[c].m
             sent == published'[Len(published')]
         IN /\ calls'[c].pc = "loop" /\ calls'[c].thrown = "no"
            /\ heap'[o].messages = heap[o].messages
            /\ heap'[o].pendingTools = heap[o].pendingTools
            /\ heap'[o].parentToolStack = heap[o].parentToolStack
            /\ heap'[o].toolToParentMap = heap[o].toolToParentMap
            /\ Len(published') = Len(published) + 1
            /\ sent.type = "tool_result"
            /\ sent.sessionId = calls[c].sid
            /\ sent.toolUseId = calls'[c].last.toolUseId
            /\ sent.toolName = "unknown"]_vars

\* Task t1 started and still open, then a result of t2, never started
C11_Witness ==
  \E c \in CallIds :
    /\ Len(calls[c].seen) = 2
    /\ calls[c].seen[1].type = "tool_start" /\ calls[c].seen[1].toolName = "Task"
    /\ calls[c].seen[2].type = "tool_result" /\ calls[c].seen[2].toolUseId = "t2"
    /\ heap[calls[c].m].parentToolStack = << "t1" >>
    /\ MapHas(heap[calls[c].m].pendingTools, "t1")
    /\ published[Len(published)].toolName = "unknown"
    /\ calls[c].base = 0

\* the parent ids an invocation id carries on the session of object o: in
\* its tool messages, in its outward tool_start events, and in the outward
\* tool_result events that follow a tool_start of it
StartIdx(sessionId, id) ==
  {i \in 1 .. Len(published) :
     /\ published[i].type = "tool_start"
     /\ published[i].sessionId = sessionId
     /\ published[i].toolUseId = id}

ResultIdx(sessionId, id) ==
  {j \in 1 .. Len(published) :
     /\ published[j].type = "tool_result"
     /\ published[j].sessionId = sessionId
     /\ published[j].toolUseId = id
     /\ \E i \in StartIdx(sessionId, id) : i < j}

ParentsOf(o, id) ==
  {heap[o].messages[i].parentToolUseId : i \in ToolMsgs(heap[o], id)}
    \cup {published[i].parentToolUseId : i \in StartIdx(heap[o].id, id)}
    \cup {published[j].parentToolUseId : j \in ResultIdx(heap[o].id, id)}

\* C14: the tool message of an invocation, its outward tool_start and its
\* outward tool_result all carry one and the same parent id.
C14_ParentAgreement ==
  \A o \in DOMAIN heap : \A id \in AllToolIds :
    Cardinality(ParentsOf(o, id)) <= 1

\* ------------------------------------------------------------- subscribers
IsPrefix(a, b) == Len(a) <= Len(b) /\ \A i \in 1 .. Len(a) : a[i] = b[i]

\* the events published since subscriber k connected
Since(k) == SubSeq(published, chan[k].since + 1, Len(published))

\* C15: what a subscriber has received is `connected` first and then, in
\* order, events published after it connected: no event published before
\* (no replay), and nothing ahead of `connected`.
C15_ConnectedThenOnlyLater ==
  \A k \in ClientIds :
    chan[k].state # "unused" =>
      /\ Len(chan[k].recv) >= 1
      /\ chan[k].recv[1] = Connected
      /\ IsPrefix(Tail(chan[k].recv), Since(k))
      /\ \A i \in 2 .. Len(chan[k].recv) : chan[k].recv[i].type # "connected"

\* a subscriber that connected after three events and got a later one
C15_Witness ==
  \E k \in ClientIds :
    /\ chan[k].since >= 3
    /\ Len(chan[k].recv) >= 2
    /\ chan[k].recv[2] = published[chan[k].since + 1]

\* C16: a live subscriber (its stream open) holds every event published
\* since it connected, in publish order: none skipped, doubled or moved.
C16_LiveReceivesAllInOrder ==
  \A k \in ClientIds :
    chan[k].state = "open" => Tail(chan[k].recv) = Since(k)

\* two live subscribers, one from the start and one from later, after a
\* whole turn was published
C16_Witness ==
  \E k, j \in ClientIds :
    /\ chan[k].state = "open" /\ chan[k].since = 0 /\ Len(chan[k].recv) >= 5
    /\ chan[j].state = "open" /\ chan[j].since >= 2 /\ Len(chan[j].recv) >= 2
    /\ published[Len(published)].type = "complete"

\* a registered controller whose enqueue throws
Failing(k) == k \in clients /\ ~Writable(k)

\* the step of invocation c that published went through to its end
Proceeded(c) ==
  LET o == calls'[c].m
  IN CASE calls[c].pc = "getManaged" ->
            /\ calls'[c].pc = "getAgent"
            /\ heap'[o].isProcessing
            /\ Len(heap'[o].messages) = calls'[c].base + 1
       [] calls[c].pc = "loop" /\ calls'[c].pc = "loop" ->
            /\ calls'[c].n = calls[c].n + 1
            /\ heap'[o].streamingText =
                  heap[o].streamingText \o
                    (IF calls'[c].last.type = "text_delta"
                     THEN calls'[c].last.text ELSE <<>>)
       [] calls[c].pc = "loop" /\ calls'[c].pc = "done" ->
            /\ ~heap'[o].isProcessing
            /\ calls'[c].rpc = "started"
       [] OTHER -> FALSE

\* C17: a publish that meets a failing subscriber removes it from the
\* registry, still delivers to every other registered subscriber, and
\* returns: the step that published is carried out in full.
C17_FailureIsolated ==
  [][(Len(published') > Len(published) /\ \E k \in ClientIds : Failing(k)) =>
       /\ \A k \in ClientIds : Failing(k) => k \notin clients'
       /\ \A j \in clients :
            Writable(j) =>
              /\ j \in clients'
              /\ chan'[j].recv =
                   chan[j].recv \o SubSeq(published', Len(published) + 1, Len(published'))
       /\ \E c \in CallIds : calls'[c] # calls[c] /\ Proceeded(c)]_vars

\* a cancelled subscriber was dropped by a publish that reached a live one
C17_Witness ==
  \E k, j \in ClientIds :
    /\ chan[k].state = "cancelled" /\ k \notin clients
    /\ chan[j].state = "open" /\ j \in clients
    /\ chan[j].since <= chan[k].since
    /\ Len(Since(j)) > Len(chan[k].recv) - 1 + (chan[k].since - chan[j].since)
    /\ Tail(chan[j].recv) = Since(j)

\* ------------------------------------------------------------ agent handle
\* the agent handles constructed for a session (by its invocations)
AgentsOf(sessionId) == {a \in agents : calls[a].sid = sessionId}

\* C21: at most one agent handle is ever constructed for a session, and
\* every invocation that runs a chat runs it on the handle the session holds.
C21_SingleAgentHandle ==
  /\ \A sid \in SessionIds : Cardinality(AgentsOf(sid)) <= 1
  /\ \A c \in CallIds :
       calls[c].pc = "loop" => calls[c].agent = heap[calls[c].m].agent

\* C22: a cancelProcessing naming a session whose isProcessing is true
\* force-aborts the session's agent with UserStop, clears isProcessing and
\* publishes one `complete`, or none when silent; also while the first
\* turn has set isProcessing and the agent is not created yet.
C22_CancelWhileProcessing ==
  [][(nCancels' = nCancels + 1 /\ Processing(lastCancel'.sessionId)) =>
       LET sid == lastCancel'.sessionId
           o == managedSessions[sid]
       IN /\ ~heap'[o].isProcessing
          /\ published' = published \o
               (IF lastCancel'.silent THEN <<>>
                ELSE << SessionEvent("complete", sid, 0) >>)
          /\ heap[o].agent # NoObj =>
               /\ Len(aborts') = Len(aborts) + 1
               /\ aborts'[Len(aborts')].agent = heap[o].agent
               /\ aborts'[Len(aborts')].reason = "UserStop"]_vars

\* ------------------------------------------------------------ ends of turns
\* the loop of invocation c ends in this step by an exception
ThrowStep(c) == calls[c].pc = "loop" /\ calls'[c].thrown = "chat"

\* C23: when the agent sequence throws, isProcessing is cleared and
\* exactly `error` (with the message of the error) and then `complete`
\* are published, one right after the other.
C23_ThrowReportsErrorThenComplete ==
  [][\A c \in CallIds :
       ThrowStep(c) =>
         LET err == calls'[c].caught
             sid == calls[c].sid
         IN /\ ~heap'[calls[c].m].isProcessing
            /\ published' = published \o
                 << [SessionEvent("error", sid, c) EXCEPT
                       !.text = IF err.isError THEN err.message
                                ELSE <<"Unknown error">>],
                    SessionEvent("complete", sid, c) >>
            /\ calls'[c].pc = "done"]_vars

\* a turn threw an Error after a delta, and a later turn on the same
\* session ran to its `complete`
C23_Witness ==
  \E c1, c2 \in CallIds :
    /\ c1 < c2
    /\ calls[c1].thrown = "chat" /\ calls[c1].caught = Boom
    /\ Len(calls[c1].seen) >= 1
    /\ calls[c2].sid = calls[c1].sid
    /\ calls[c2].pc = "done" /\ calls[c2].thrown = "no"
    /\ Len(calls[c2].seen) >= 1
    /\ published[Len(published)] = SessionEvent("complete", calls[c2].sid, c2)

\* invocation c has consumed the `complete` of its agent sequence
ConsumedComplete(c) == calls[c].last.type = "complete"

\* C24: consuming `complete` clears isProcessing and publishes `complete`
\* last; from then on the invocation has ended: it processes nothing more,
\* and publishes nothing more.
C24_StopsAfterComplete ==
  [][\A c \in CallIds :
       /\ (~ConsumedComplete(c) /\ ConsumedComplete(c)') =>
            /\ ~heap'[calls[c].m].isProcessing
            /\ published' = Append(published, SessionEvent("complete", calls[c].sid, c))
            /\ calls'[c].pc = "done"
       /\ ConsumedComplete(c) =>
            /\ calls'[c] = calls[c]
            /\ PublishedBy(c)' = PublishedBy(c)]_vars

\* a turn ended by `complete`, and a later turn of the session is
\* processing events
C24_Witness ==
  \E c1, c2 \in CallIds :
    /\ c1 < c2
    /\ ConsumedComplete(c1) /\ Len(calls[c1].seen) >= 1
    /\ calls[c2].pc = "loop" /\ Len(calls[c2].seen) >= 1
    /\ heap[calls[c2].m].isProcessing

\* ---------------------------------------------------------- start of turns
\* invocation c began the current turn of its session, the turn was not
\* cancelled, and its loop has processed no agent event yet
AtTurnStart(c) ==
  /\ calls[c].begun
  /\ calls[c].pc \in {"getAgent", "loop"}
  /\ calls[c].n = 0
  /\ calls[c].cancelled = "no"
  /\ heap[calls[c].m].turn = c

TurnStateReset(mg) ==
  /\ mg.isProcessing
  /\ mg.streamingText = <<>>
  /\ mg.pendingTools = EmptyMap
  /\ mg.parentToolStack = <<>>
  /\ mg.toolToParentMap = EmptyMap

\* C25: from the user_message of a turn until the first agent event of
\* that turn is processed, the session is processing and streamingText,
\* pendingTools, parentToolStack and toolToParentMap are empty.
C25_TurnStartsReset ==
  \A c \in CallIds : AtTurnStart(c) => TurnStateReset(heap[calls[c].m])

\* ------------------------------------------------------------------- text
\* the loop of invocation c processes an agent event of type `type`
Processes(c, type) ==
  /\ calls[c].pc = "loop"
  /\ calls'[c].n = calls[c].n + 1
  /\ calls'[c].last.type = type

\* C26: a text_delta met with streamingText empty sets pendingTextParent
\* to the top of parentToolStack (none when empty), otherwise leaves it;
\* either way the delta is appended to streamingText and exactly one
\* text_delta with that delta is published in the same step.
C26_TextDelta ==
  [][\A c \in CallIds :
       Processes(c, "text_delta") =>
         LET mg == heap[calls[c].m]
             mg2 == heap'[calls[c].m]
             delta == calls'[c].last.text
             stack == mg.parentToolStack
         IN /\ mg2.pendingTextParent =
                 IF mg.streamingText = <<>>
                 THEN (IF Len(stack) = 0 THEN None ELSE stack[Len(stack)])
                 ELSE mg.pendingTextParent
            /\ mg2.streamingText = mg.streamingText \o delta
            /\ published' = Append(published,
                 [SessionEvent("text_delta", calls[c].sid, c) EXCEPT !.text = delta])
            /\ mg2.messages = mg.messages
            /\ mg2.parentToolStack = stack]_vars

\* delta a with no container open, Task t1, delta b: the parent captured
\* at the first delta (none) is kept
C26_Witness ==
  \E c \in CallIds :
    /\ Len(calls[c].seen) = 3
    /\ calls[c].seen[1].type = "text_delta"
    /\ calls[c].seen[2].type = "tool_start"
    /\ calls[c].seen[3].type = "text_delta"
    /\ heap[calls[c].m].parentToolStack = << "t1" >>
    /\ heap[calls[c].m].pendingTextParent = None
    /\ Len(heap[calls[c].m].streamingText) = 2

\* C27: a text_complete appends one assistant message whose parent is
\* pendingTextParent when the event is intermediate and none otherwise,
\* publishes text_complete with the same parent, and leaves streamingText
\* empty and pendingTextParent cleared.
C27_TextComplete ==
  [][\A c \in CallIds :
       Processes(c, "text_complete") =>
         LET mg == heap[calls[c].m]
             mg2 == heap'[calls[c].m]
             ev == calls'[c].last
             parent == IF ev.isIntermediate THEN mg.pendingTextParent ELSE None
         IN /\ mg2.messages = Append(mg.messages,
                 [Message("assistant", ev.text) EXCEPT
                    !.isIntermediate = ev.isIntermediate,
                    !.parentToolUseId = parent])
            /\ published' = Append(published,
                 [SessionEvent("text_complete", calls[c].sid, c) EXCEPT
                    !.text = ev.text,
                    !.isIntermediate = ev.isIntermediate,
                    !.parentToolUseId = parent])
            /\ mg2.streamingText = <<>>
            /\ mg2.pendingTextParent = None]_vars

\* Task t1, delta a (parent t1 captured), intermediate text_complete: the
\* assistant message is under t1
C27_Witness ==
  \E c \in CallIds :
    LET mg == heap[calls[c].m]
    IN /\ Len(calls[c].seen) = 3
       /\ calls[c].seen[1].type = "tool_start"
       /\ calls[c].seen[2].type = "text_delta"
       /\ calls[c].seen[3].type = "text_complete"
       /\ calls[c].seen[3].isIntermediate
       /\ mg.messages[Len(mg.messages)].role = "assistant"
       /\ mg.messages[Len(mg.messages)].parentToolUseId = "t1"
       /\ published[Len(published)].parentToolUseId = "t1"
       /\ mg.streamingText = <<>> /\ mg.pendingTextParent = None

\* ------------------------------------------------------- the parent stack
\* One turn on one session whose agent opens containers, with and without
\* an explicit parent, starts a plain tool with and without one, and
\* closes the containers in any order.
StackEvents ==
  { [AgentEvent("tool_start") EXCEPT !.toolUseId = "t1", !.toolName = "Task"],
    [AgentEvent("tool_start") EXCEPT !.toolUseId = "t2", !.toolName = "TaskOutput",
                                     !.parentToolUseId = "t1"],
    [AgentEvent("tool_start") EXCEPT !.toolUseId = "t3", !.toolName = "Read"],
    [AgentEvent("tool_start") EXCEPT !.toolUseId = "t3", !.toolName = "Read",
                                     !.parentToolUseId = "t1"],
    [AgentEvent("tool_result") EXCEPT !.toolUseId = "t1", !.result = <<"r">>],
    [AgentEvent("tool_result") EXCEPT !.toolUseId = "t2", !.result = <<"r">>] }

NextStack ==
  \/ \E sid \in {"s1"} : FirstTurn(sid) /\ rpcSendMessage(sid, MaxCalls)
  \/ \E c \in CallIds : sendMessageBegin(c)
  \/ \E c \in CallIds : sendMessageChat(c)
  \/ \E c \in CallIds, ev \in StackEvents : chatYield(c, ev, MaxStackEvents)
  \/ \E c \in CallIds : chatComplete(c)

SpecStack == Init /\ [][NextStack]_vars

\* the loop of invocation c processes a tool_start of a container tool
ContainerStart(c) ==
  /\ Processes(c, "tool_start")
  /\ calls'[c].last.toolName \in PARENT_TOOLS

\* C28: a tool_start of Task or TaskOutput has parent none, whatever
\* parent the event names and whatever is on the stack; its id is pushed
\* on parentToolStack and toolToParentMap is left as it was.
C28_ContainerStart ==
  [][\A c \in CallIds :
       ContainerStart(c) =>
         LET mg == heap[calls[c].m]
             mg2 == heap'[calls[c].m]
             ev == calls'[c].last
         IN /\ mg2.parentToolStack = Append(mg.parentToolStack, ev.toolUseId)
            /\ mg2.toolToParentMap = mg.toolToParentMap
            /\ Len(mg2.messages) = Len(mg.messages) + 1
            /\ mg2.messages[Len(mg2.messages)].toolUseId = ev.toolUseId
            /\ mg2.messages[Len(mg2.messages)].parentToolUseId = None
            /\ published'[Len(published')].type = "tool_start"
            /\ published'[Len(published')].toolUseId = ev.toolUseId
            /\ published'[Len(published')].parentToolUseId = None]_vars

\* Task t1, then TaskOutput t2 naming t1 as its parent: both on the
\* stack, t2 published without parent, no map entry
C28_Witness ==
  \E c \in CallIds :
    LET mg == heap[calls[c].m]
    IN /\ Len(calls[c].seen) = 2
       /\ calls[c].last.toolName = "TaskOutput"
       /\ calls[c].last.parentToolUseId = "t1"
       /\ mg.parentToolStack = << "t1", "t2" >>
       /\ mg.toolToParentMap = EmptyMap
       /\ published[Len(published)].toolUseId = "t2"
       /\ published[Len(published)].parentToolUseId = None

\* the loop of invocation c processes a tool_start of a plain tool
PlainStart(c) ==
  /\ Processes(c, "tool_start")
  /\ calls'[c].last.toolName \notin PARENT_TOOLS

\* C29: a tool_start of a tool that is not a container has the parent the
\* event names, else the last entry of parentToolStack, else none;
\* toolToParentMap gets the entry id -> parent exactly when there is a
\* parent; the stack is unchanged; the new pending tool message and the
\* published tool_start carry that parent.
C29_PlainStart ==
  [][\A c \in CallIds :
       PlainStart(c) =>
         LET mg == heap[calls[c].m]
             mg2 == heap'[calls[c].m]
             ev == calls'[c].last
             stack == mg.parentToolStack
             parent == IF ev.parentToolUseId # None THEN ev.parentToolUseId
                       ELSE IF Len(stack) > 0 THEN stack[Len(stack)]
                       ELSE None
             msg == mg2.messages[Len(mg2.messages)]
             sent == published'[Len(published')]
         IN /\ mg2.parentToolStack = stack
            /\ mg2.toolToParentMap =
                 IF parent # None THEN MapSet(mg.toolToParentMap, ev.toolUseId, parent)
                 ELSE mg.toolToParentMap
            /\ Len(mg2.messages) = Len(mg.messages) + 1
            /\ msg.role = "tool" /\ msg.toolStatus = "pending"
            /\ msg.toolUseId = ev.toolUseId /\ msg.parentToolUseId = parent
            /\ Len(published') = Len(published) + 1
            /\ sent.type = "tool_start" /\ sent.toolUseId = ev.toolUseId
            /\ sent.parentToolUseId = parent]_vars

\* Task t1, TaskOutput t2, then Read t3 naming t1: the explicit parent t1
\* wins over the stack top t2 and is recorded in toolToParentMap
C29_Witness ==
  \E c \in CallIds :
    LET mg == heap[calls[c].m]
    IN /\ Len(calls[c].seen) = 3
       /\ calls[c].last.toolName = "Read"
       /\ calls[c].last.parentToolUseId = "t1"
       /\ mg.parentToolStack = << "t1", "t2" >>
       /\ MapHas(mg.toolToParentMap, "t3") /\ mg.toolToParentMap["t3"] = "t1"
       /\ mg.messages[Len(mg.messages)].parentToolUseId = "t1"
       /\ published[Len(published)].parentToolUseId = "t1"

\* every container start among the events has a later result for its id
AllClosed(seen) ==
  \A i \in 1 .. Len(seen) :
    (seen[i].type = "tool_start" /\ seen[i].toolName \in PARENT_TOOLS)
      => \E j \in (i + 1) .. Len(seen) :
           seen[j].type = "tool_result" /\ seen[j].toolUseId = seen[i].toolUseId

\* C30: a tool_result leaves parentToolStack without its id, the other
\* entries in their order, wherever the id sat; and once every container
\* started in the turn has had its result the stack is empty.
C30_ResultRemovesFromStack ==
  [][\A c \in CallIds :
       Processes(c, "tool_result") =>
         LET stack == heap[calls[c].m].parentToolStack
             id == calls'[c].last.toolUseId
             stack2 == heap'[calls[c].m].parentToolStack
         IN /\ stack2 = SelectSeq(stack, LAMBDA x : x # id)
            /\ AllClosed(calls'[c].seen) => stack2 = <<>>]_vars

\* ------------------------------------------------------ the tool results
\* Turns on one session, one after the other, whose agent starts one plain
\* tool under different explicit parents or none, the id reused at will,
\* and reports results for it that differ; it also completes a text.
ResultEvents ==
  { [AgentEvent("tool_start") EXCEPT !.toolUseId = "t3", !.toolName = "Read",
                                     !.parentToolUseId = "t1"],
    [AgentEvent("tool_start") EXCEPT !.toolUseId = "t3", !.toolName = "Read",
                                     !.parentToolUseId = "t2"],
    [AgentEvent("tool_start") EXCEPT !.toolUseId = "t3", !.toolName = "Read"],
    [AgentEvent("tool_result") EXCEPT !.toolUseId = "t3", !.result = <<"r">>],
    [AgentEvent("tool_result") EXCEPT !.toolUseId = "t3", !.result = <<"q">>,
                                      !.isError = TRUE],
    [AgentEvent("text_complete") EXCEPT !.text = <<"a">>] }

NextResult ==
  \/ \E sid \in {"s1"} : Quiescent /\ rpcSendMessage(sid, MaxCalls)
  \/ \E c \in CallIds : sendMessageBegin(c)
  \/ \E c \in CallIds : sendMessageChat(c)
  \/ \E c \in CallIds, ev \in ResultEvents : chatYield(c, ev, MaxResultEvents)
  \/ \E c \in CallIds : chatComplete(c)

SpecResult == Init /\ [][NextResult]_vars

\* C31: the parent of a published tool_result is the parent of the
\* (first) tool message with that id when it has one, else the
\* toolToParentMap entry of the id, else none; after the step the map has
\* no entry for the id.
C31_ResultParent ==
  [][\A c \in CallIds :
       Processes(c, "tool_result") =>
         LET mg == heap[calls[c].m]
             id == calls'[c].last.toolUseId
             idx == {i \in 1 .. Len(mg.messages) : mg.messages[i].toolUseId = id}
             msgParent == IF idx = {} THEN None
                          ELSE mg.messages[CHOOSE i \in idx : \A j \in idx : i <= j].parentToolUseId
             mapParent == IF id \in DOMAIN mg.toolToParentMap
                          THEN mg.toolToParentMap[id] ELSE None
             sent == published'[Len(published')]
         IN /\ Len(published') = Len(published) + 1
            /\ sent.type = "tool_result" /\ sent.toolUseId = id
            /\ sent.parentToolUseId = IF msgParent # None THEN msgParent ELSE mapParent
            /\ id \notin DOMAIN heap'[calls[c].m].toolToParentMap]_vars

\* t3 started under t1, started again under t2 (the map now says t2),
\* then its result: published under t1, the parent of its message
C31_Witness ==
  \E c \in CallIds :
    /\ Len(calls[c].seen) = 3
    /\ calls[c].seen[1].type = "tool_start" /\ calls[c].seen[1].parentToolUseId = "t1"
    /\ calls[c].seen[2].type = "tool_start" /\ calls[c].seen[2].parentToolUseId = "t2"
    /\ calls[c].seen[3].type = "tool_result"
    /\ published[Len(published)].type = "tool_result"
    /\ published[Len(published)].parentToolUseId = "t1"
    /\ ~MapHas(heap[calls[c].m].toolToParentMap, "t3")

\* t3 started without parent (its message has none), started again under
\* t2: the result is published under the map entry t2
C31_WitnessFallback ==
  \E c \in CallIds :
    /\ Len(calls[c].seen) = 3
    /\ calls[c].seen[1].type = "tool_start" /\ calls[c].seen[1].parentToolUseId = None
    /\ calls[c].seen[2].type = "tool_start" /\ calls[c].seen[2].parentToolUseId = "t2"
    /\ calls[c].seen[3].type = "tool_result"
    /\ published[Len(published)].parentToolUseId = "t2"

\* ------------------------------------------------ the stateless variants
\* One turn on one session whose agent yields the six variants that are
\* forwarded as they are, a variant processEvent has no case for, and a
\* text_delta (so that there is state to leave alone).
PassEvents ==
  { [AgentEvent(t) EXCEPT !.text = <<"p">>] :
      t \in {"status", "info", "error", "thinking_delta", "thinking_complete",
             "permission_request", "usage_update"} }
    \cup { [AgentEvent("text_delta") EXCEPT !.text = <<"a">>] }

NextPass ==
  \/ \E sid \in {"s1"} : FirstTurn(sid) /\ rpcSendMessage(sid, MaxCalls)
  \/ \E c \in CallIds : sendMessageBegin(c)
  \/ \E c \in CallIds : sendMessageChat(c)
  \/ \E c \in CallIds, ev \in PassEvents : chatYield(c, ev, MaxPassEvents)
  \/ \E c \in CallIds : chatComplete(c)

SpecPass == Init /\ [][NextPass]_vars

\* the variants processEvent or the loop of sendMessage have a case for
Recognized ==
  {"text_delta", "text_complete", "tool_start", "tool_result", "status", "info",
   "error", "thinking_delta", "thinking_complete", "permission_request",
   "typed_error", "complete"}

\* C32: an agent event of a variant that is not recognized publishes
\* nothing, changes no ManagedSession and no subscriber, and the loop that
\* took it goes on (it has not failed, it takes the next event).
C32_UnrecognizedIgnored ==
  [][\A c \in CallIds :
       (calls[c].pc = "loop" /\ calls'[c].n = calls[c].n + 1
          /\ calls'[c].last.type \notin Recognized) =>
         /\ UNCHANGED <<heap, published, clients, chan, managedSessions, aborts>>
         /\ calls'[c].pc = "loop"
         /\ calls'[c].thrown = "no"]_vars

\* an unrecognized event, then a text_delta processed by the same loop
C32_Witness ==
  \E c \in CallIds :
    /\ Len(calls[c].seen) = 2
    /\ calls[c].seen[1].type = "usage_update"
    /\ calls[c].seen[2].type = "text_delta"
    /\ heap[calls[c].m].streamingText = <<"a">>
    /\ Len(published) = 2
    /\ published[2].type = "text_delta"

\* C33: processing status, info, error, thinking_delta, thinking_complete
\* or permission_request publishes exactly one event of the same name for
\* the session and leaves every ManagedSession as it was.
C33_PassthroughStateless ==
  [][\A c \in CallIds :
       (calls[c].pc = "loop" /\ calls'[c].n = calls[c].n + 1
          /\ calls'[c].last.type \in {"status", "info", "error", "thinking_delta",
                                      "thinking_complete", "permission_request"}) =>
         /\ Len(published') = Len(published) + 1
         /\ SubSeq(published', 1, Len(published)) = published
         /\ published'[Len(published')].type = calls'[c].last.type
         /\ published'[Len(published')].sessionId = calls[c].sid
         /\ published'[Len(published')].text = calls'[c].last.text
         /\ heap' = heap]_vars

\* a text_delta, then thinking_delta and permission_request: both
\* published, the streamed text and the flag as the delta left them
C33_Witness ==
  \E c \in CallIds :
    /\ Len(calls[c].seen) = 3
    /\ calls[c].seen[1].type = "text_delta"
    /\ calls[c].seen[2].type = "thinking_delta"
    /\ calls[c].seen[3].type = "permission_request"
    /\ Len(published) = 4
    /\ published[3].type = "thinking_delta"
    /\ published[4].type = "permission_request"
    /\ heap[calls[c].m].streamingText = <<"a">>
    /\ heap[calls[c].m].isProcessing

\* ------------------------------------------------------- the message list
\* message `new` is message `old` after the in-place update of a tool_result
UpdatedByResult(old, new) ==
  /\ old.role = "tool"
  /\ new = [old EXCEPT !.content = new.content,
                       !.toolResult = new.toolResult,
                       !.toolStatus = new.toolStatus,
                       !.isError = new.isError]
  /\ \E c \in CallIds :
       /\ Processes(c, "tool_result")
       /\ calls'[c].last.toolUseId = old.toolUseId

\* C34: in every step the message list of every ManagedSession keeps its
\* messages, in their places; a message that changes is a tool message
\* changed in status, content, result or error flag only, in a step that
\* processes a tool_result for its id.  User and assistant messages stay
\* as appended.
C34_MessagesAppendOnly ==
  [][\A o \in DOMAIN heap :
       LET old == heap[o].messages
           new == heap'[o].messages
       IN /\ Len(new) >= Len(old)
          /\ \A i \in 1 .. Len(old) :
               new[i] = old[i] \/ UpdatedByResult(old[i], new[i])]_vars

\* a second turn on a list holding a user message, a tool message updated
\* in place by its result, and an assistant message of the first turn
C34_Witness ==
  \E o \in DOMAIN heap :
    LET ms == heap[o].messages
    IN /\ Len(ms) = 4
       /\ ms[1].role = "user"
       /\ ms[2].role = "tool" /\ ms[2].toolStatus = "completed"
       /\ ms[3].role = "assistant"
       /\ ms[4].role = "user"

\* -------------------------------------------------------------- disconnect
\* C35: the step in which a subscriber's request aborts leaves its
\* controller closed and out of `clients`, also when the stream had been
\* cancelled before and whatever else is registered; from then on the
\* controller is never registered again and receives no frame.
C35_DisconnectRemoves ==
  [][\A k \in ClientIds :
       /\ (chan[k].state # "closed" /\ chan'[k].state = "closed") =>
            /\ k \notin clients'
            /\ clients' = clients \ {k}
            /\ chan'[k].recv = chan[k].recv
       /\ chan[k].state = "closed" =>
            /\ k \notin clients'
            /\ chan'[k] = chan[k]]_vars

\* a subscriber that got an event, disconnected, and missed the next one,
\* which a subscriber still connected received
C35_Witness ==
  \E k, j \in ClientIds :
    /\ chan[k].state = "closed" /\ k \notin clients
    /\ Len(chan[k].recv) >= 2
    /\ Len(published) > chan[k].since + Len(chan[k].recv) - 1
    /\ chan[j].state = "open" /\ clients = {j}
    /\ chan[j].recv[Len(chan[j].recv)] = published[Len(published)]

\* ---------------------------------------------------- the tool structures
\* C36: in every state, for every ManagedSession, each key of
\* toolToParentMap and each id on parentToolStack is a key of pendingTools,
\* and no id is on parentToolStack twice.
C36_TrackingRefersToPending ==
  \A o \in DOMAIN heap :
    LET mg == heap[o]
        stack == mg.parentToolStack
    IN /\ DOMAIN mg.toolToParentMap \subseteq DOMAIN mg.pendingTools
       /\ \A i \in 1 .. Len(stack) : stack[i] \in DOMAIN mg.pendingTools
       /\ \A i, j \in 1 .. Len(stack) : i # j => stack[i] # stack[j]

\* ------------------------------------------------- the parent of a text
\* ids of the container tools whose tool_start is among the events
ContainersStarted(seen) ==
  {seen[i].toolUseId : i \in {j \in 1 .. Len(seen) :
      seen[j].type = "tool_start" /\ seen[j].toolName \in PARENT_TOOLS}}

\* C37: when a text_complete is processed and the assistant message it
\* appends has a parent, that parent is a container started by an
\* earlier event of the same turn.
C37_TextParentOfThisTurn ==
  [][\A c \in CallIds :
       Processes(c, "text_complete") =>
         LET msgs == heap'[calls[c].m].messages
             parent == msgs[Len(msgs)].parentToolUseId
         IN parent # None => parent \in ContainersStarted(calls[c].seen)]_vars

\* ------------------------------------------------- one state per session
\* the ManagedSession objects made for a session id
StatesOf(sessionId) == {o \in DOMAIN heap : heap[o].id = sessionId}

\* C38: in every state a session id has at most one ManagedSession, and
\* every invocation that has begun its turn and not ended works on the
\* object the map holds for its session.
C38_OneManagedState ==
  /\ \A sid \in SessionIds : Cardinality(StatesOf(sid)) <= 1
  /\ \A c \in CallIds :
       (calls[c].begun /\ calls[c].pc \in {"getAgent", "loop"}) =>
         /\ MapHas(managedSessions, calls[c].sid)
         /\ managedSessions[calls[c].sid] = calls[c].m

\* ------------------------------------------------- completed tool messages
\* C39: a tool message whose status is completed is the same in the next
\* state, whatever the step: no agent event changes its status, content,
\* result or error flag again.
C39_CompletedIsFinal ==
  [][\A o \in DOMAIN heap :
       \A i \in 1 .. Len(heap[o].messages) :
         heap[o].messages[i].toolStatus = "completed" =>
           /\ Len(heap'[o].messages) >= i
           /\ heap'[o].messages[i] = heap[o].messages[i]]_vars

\* ---------------------------------------------------------------- deleting
\* Messages sent to one session at will, its turns streaming text, and the
\* session deleted at any point.
DeleteEvents == { [AgentEvent("text_delta") EXCEPT !.text = <<"a">>] }

NextDelete ==
  \/ \E sid \in {"s1"} : rpcSendMessage(sid, MaxCalls)
  \/ \E c \in CallIds : sendMessageBegin(c)
  \/ \E c \in CallIds : sendMessageChat(c)
  \/ \E c \in CallIds, ev \in DeleteEvents : chatYield(c, ev, MaxDeleteEvents)
  \/ \E c \in CallIds : chatComplete(c)
  \/ \E sid \in {"s1"} : deleteSessionStored(sid)
  \/ \E sid \in {"s1"} : deleteSessionManaged(sid)

SpecDelete == Init /\ [][NextDelete]_vars

\* deleteSession has removed the ManagedSession of the session
Deleted(sessionId) ==
  /\ sessionId \in StoredIds \ stored
  /\ ~MapHas(managedSessions, sessionId)

\* the turn of invocation c is under way
Running(c) == calls[c].begun /\ calls[c].pc \in {"getAgent", "loop"}

\* C40: once deleteSession has removed the ManagedSession of a session, a
\* turn of that session that was under way publishes no further event
\* for it; and an invocation that found no ManagedSession for the session
\* begins no turn (so none runs beside the old loop).
C40_DeleteSilencesTurn ==
  [][\A c \in CallIds :
       /\ (Running(c) /\ Deleted(calls[c].sid)) =>
            \A i \in (Len(published) + 1) .. Len(published') :
              ~(published'[i].by = c /\ published'[i].sessionId = calls[c].sid)
       /\ (calls[c].pc = "getManaged" /\ calls[c].m = NoObj /\ Deleted(calls[c].sid)) =>
            calls'[c].pc \notin {"getAgent", "loop"}]_vars

====
